---- MODULE Spec2Model ----
(***************************************************************************)
(* s3_cross_copy.py: the streaming copy of one object (copy_one_object)    *)
(* and the scheduling of the copies by main(), as a state machine.         *)
(*                                                                         *)
(* One step of a task is one request to a storage client together with the *)
(* local code that follows it up to the next request.  The steps of        *)
(* different tasks interleave freely (worker threads of the pool); the     *)
(* main thread is a process of its own, and KeyboardInterrupt is delivered *)
(* to the main thread only.                                                *)
(*                                                                         *)
(* The specifications share the actions: Spec is a whole run of main(),    *)
(* SpecCopy one invocation of copy_one_object (SpecCopyLive: when each of  *)
(* its requests returns), SpecPool the worker threads of a pool that holds *)
(* more tasks than workers, SpecMap the mapping of one listed key to its   *)
(* destination key, SpecPair that of two keys of one prefix, SpecParts the *)
(* number of parts of an object at the default chunk size, and SpecBeat    *)
(* one invocation of copy_one_object with the wall clock.  In Spec the     *)
(* n-th key the listing returns is written n and its destination key is    *)
(* not computed.                                                           *)
(*                                                                         *)
(* log() succeeds until the log file is closed.  Time passes only in       *)
(* SpecBeat, where the file stays open; in the other specifications every  *)
(* step is instantaneous and no progress or heartbeat line is due.         *)
(***************************************************************************)
EXTENDS Integers, Sequences, FiniteSets, TLC

\* Bounds of the model.
NumTasks == 2        \* most keys the listing returns
MaxCopySize == 5     \* largest object size in a single invocation (SpecCopy)
MaxPartBytes == 2    \* --part-size ranges over 1..MaxPartBytes
MaxPages == 2        \* most pages the listing of one prefix takes
PoolExtra == 1       \* tasks beyond MAX_WORKERS handed to the pool (SpecPool)
MaxKeyLen == 4       \* longest prefix, base and key remainder (SpecMap)
MaxBeatSize == 2     \* largest object size when the clock runs (SpecBeat)
MaxPairLen == 2      \* longest prefix, base and second key remainder (SpecPair)

\* In a whole run (Spec) the objects are empty or hold one byte, and the part
\* size is one byte: what the scheduling of main() reads of a copy is how it
\* ends.  The sizes range over 0..MaxCopySize in SpecCopy.
RunSizes == 0..1

\* Program constants.
MAX_WORKERS == 16
PROGRESS_INTERVAL_SEC == 2
HEARTBEAT_SEC == 30

VARIABLES
    mainpc,       \* position of the main thread in main()
    total,        \* len(tasks); -1 before the listing
    part_bytes,   \* args.part_size
    max_obj,      \* size of the largest object the source may hold
    submitted,    \* tasks 1..submitted were handed to the executor (or called)
    yielded,      \* futures as_completed has yielded and whose result() returned
    after,        \* what main does once the with-block has joined the workers
    exit_code,    \* process exit status; -1 while running
    outcome,      \* which exit path main took
    reported,     \* tasks whose error text the run printed (ERROR: ...)
    interrupted,  \* a KeyboardInterrupt has been delivered
    done_msg,     \* N of "Interrupted (N/M completed)"; -1 if not printed
    log_closed,   \* log_file.close() has run
    listing,      \* the listing loop of main() and list_all_objects' locals
    reply,        \* what the operator answered to "Proceed? [y/N]"; "none" before
    keymap,       \* one evaluation of the key mapping of main() (SpecMap)
    sizing,       \* the parts one object takes at a chunk size (SpecParts)
    task          \* per task: its future's state and copy_one_object's locals

prevars == <<listing, reply, keymap, sizing>>
mainvars == <<mainpc, total, submitted, yielded, after, exit_code, outcome,
              reported, interrupted, done_msg, log_closed, prevars>>
envvars == <<part_bytes, max_obj>>
vars == <<mainpc, total, submitted, yielded, after, exit_code, outcome,
          reported, interrupted, done_msg, log_closed, listing, reply, keymap,
          sizing, part_bytes, max_obj, task>>

\* The tasks of the run: enumerate(tasks, start=1), line 351.
TaskIds == DOMAIN task

\* The key mapping before it is evaluated.  A string is the sequence of its
\* characters.
NoKeyMap ==
    [pc |-> "idle",
     prefix |-> <<>>,        \* the key part of the source URI (parse_s3_url)
     base |-> <<>>,          \* SOURCE_BASE
     dest |-> <<>>,          \* the key part of DEST_S3_URI (parse_s3_url)
     list_prefix |-> <<>>,
     pre |-> <<>>,
     dest_prefix |-> <<>>,
     dest_subpath |-> <<>>,
     src_key |-> <<>>,
     rel |-> <<>>,
     dkey |-> <<>>,
     tasks |-> <<>>]         \* tasks of main(): <<src_key, dkey>> of each key mapped

\* The part count before it is worked out.  Sizes are counted in MiB.
NoSizing == [pc |-> "idle", size |-> 0, part |-> 0, parts |-> 0]

NoError == [kind |-> "none", part |-> 0, bytes |-> -1]

\* An exception: what raised it, the part number its message names (0: none)
\* and the byte count it names (-1: none; no message of copy_one_object
\* formats bytes_done, lines 131, 153, 163, 193, 214, 239).
Error(k, n) == [kind |-> k, part |-> n, bytes |-> -1]

\* A request sent through one of the two clients, with its outcome.
Req(c, o, n, success) == [client |-> c, op |-> o, n |-> n, ok |-> success]

\* copy_one_object's locals and the server-side state of its destination key.
NewTask ==
    [state      |-> "Unsubmitted",  \* Unsubmitted, Pending, Running, Succeeded, Failed, Cancelled
     pc         |-> "idle",         \* the next request of copy_one_object
     total_size |-> -1,             \* head["ContentLength"]
     remaining  |-> 0,              \* bytes the source stream has still to yield
     chunk      |-> 0,              \* len(chunk): bound until the next read returns
     part_num   |-> 1,
     parts      |-> <<>>,           \* PartNumber of every entry of parts
     bytes_done |-> 0,
     session    |-> "none",         \* the multipart upload: none, open, completed, aborted
     srv_parts  |-> {},             \* <<PartNumber, size>> the service holds for the upload
     err        |-> NoError,        \* the exception in flight, then the one raised
     reqs       |-> <<>>,           \* requests issued, in order
     dest       |-> -1,             \* size of the destination object; -1: no object
     dest_size  |-> -1,             \* dest_head["ContentLength"]; -1: not probed
     ret        |-> <<>>,           \* what copy_one_object returned
     clock      |-> 0,              \* time.time(), in seconds since line 167
     now        |-> 0,              \* time the last chunk was done (line 198)
     last_progress_log |-> 0,
     last_heartbeat    |-> 0,
     beat_at    |-> -1,             \* time of the last "Still copying" line
     logging    |-> FALSE]          \* inside log_file.write/flush of log()

Min(a, b) == IF a < b THEN a ELSE b

MaxOf(S) == CHOOSE n \in S : \A m \in S : m <= n

CeilDiv(a, b) == (a + b - 1) \div b

RECURSIVE SumSizes(_)
SumSizes(S) ==
    IF S = {} THEN 0
    ELSE LET p == CHOOSE q \in S : TRUE IN p[2] + SumSizes(S \ {p})

Terminal == {"Succeeded", "Failed", "Cancelled"}

Submitted == 1..submitted

\* Mutant: the executor is left without waiting for its workers.
AllJoined_NoWait == TRUE

\* line 376: leaving the with-block joins the workers, which end when the
\* queue is empty.
AllJoined == \A t \in Submitted : task[t].state \in Terminal

Running == {t \in TaskIds : task[t].state = "Running"}

\* Mutant: one worker per task, whatever their number.
workers_Uncapped == total

\* line 353: workers = min(MAX_WORKERS, total)
workers == Min(MAX_WORKERS, total)

----------------------------------------------------------------------------
(* copy_one_object *)

Set(t, r) == task' = [task EXCEPT ![t] = r]

\* raise: the invocation ends with exception e.
Raise(t, r, e) == Set(t, [r EXCEPT !.state = "Failed", !.pc = "done", !.err = e])

\* Mutant: the copy returns the bytes it has counted.
ReturnValue_Bytes(r) == <<r.bytes_done>>

\* lines 156, 242: a bare return and the end of the function; both give None,
\* written as the empty sequence, an integer n being <<n>>.
ReturnValue(r) == <<>>

\* return: the invocation ends normally.
Return(t, r) ==
    Set(t, [r EXCEPT !.state = "Succeeded", !.pc = "done", !.ret = ReturnValue(r)])

\* lines 139-143: log_file.write and log_file.flush raise ValueError on a
\* file that was closed.
ClosedLog == Error("closed_log", 0)

\* lines 155-156, 242: the last line is logged, then the invocation returns.
LogDone(t, r) == IF log_closed THEN Raise(t, r, ClosedLog) ELSE Return(t, r)

Sent(t, c, o, n, success) == [task[t] EXCEPT !.reqs = Append(@, Req(c, o, n, success))]

IsRunning(t) == task[t].state = "Running"

\* Mutant: the empty object is not told apart.
IsEmptyObject_Never(size) == FALSE

\* line 150: if total_size == 0
IsEmptyObject(size) == size = 0

\* Mutant: the copy goes on to the multipart upload after a failed probe.
ProbeFailedPc_Create == "create"

\* lines 130-131: a failed probe raises, which ends the invocation
ProbeFailedPc == "raise"

\* lines 126-131
HeadSource(t) ==
    /\ IsRunning(t) /\ task[t].pc = "head"
    /\ \/ \E size \in 0..max_obj :
             Set(t, [Sent(t, "source", "head_object", 0, TRUE) EXCEPT
                        !.total_size = size,
                        !.pc = "log"])
       \/ IF ProbeFailedPc = "raise"
          THEN Raise(t, Sent(t, "source", "head_object", 0, FALSE),
                     Error("head_object", 0))
          ELSE Set(t, [Sent(t, "source", "head_object", 0, FALSE) EXCEPT
                          !.pc = ProbeFailedPc])
    /\ UNCHANGED <<mainvars, envvars>>

\* line 354, lines 137-138: with a lock (more than one worker) the write
\* waits until no other worker is inside its own.
LockFree(t) == workers > 1 => \A u \in TaskIds \ {t} : ~task[u].logging

\* lines 133-140, 147: log("Copying ...") takes the lock, if there is one,
\* and starts to write the line.
LogEnter(t) ==
    /\ IsRunning(t) /\ task[t].pc = "log" /\ ~task[t].logging
    /\ LockFree(t)
    /\ IF log_closed
       THEN Raise(t, task[t], ClosedLog)
       ELSE Set(t, [task[t] EXCEPT !.logging = TRUE])
    /\ UNCHANGED <<mainvars, envvars>>

\* lines 139-143, 149: the line is written and flushed, the lock released.
LogExit(t) ==
    /\ IsRunning(t) /\ task[t].pc = "log" /\ task[t].logging
    /\ IF log_closed
       THEN Raise(t, [task[t] EXCEPT !.logging = FALSE], ClosedLog)
       ELSE Set(t, [task[t] EXCEPT
                      !.logging = FALSE,
                      !.pc = IF IsEmptyObject(task[t].total_size) THEN "put"
                             ELSE "create"])
    /\ UNCHANGED <<mainvars, envvars>>

\* lines 151-156
PutEmpty(t) ==
    /\ IsRunning(t) /\ task[t].pc = "put"
    /\ \/ LogDone(t, [Sent(t, "dest", "put_object", 0, TRUE) EXCEPT !.dest = 0])
       \/ Raise(t, Sent(t, "dest", "put_object", 0, FALSE), Error("put_object", 0))
    /\ UNCHANGED <<mainvars, envvars>>

\* lines 158-169
CreateMultipart(t) ==
    /\ IsRunning(t) /\ task[t].pc = "create"
    /\ \/ Set(t, [Sent(t, "dest", "create_multipart_upload", 0, TRUE) EXCEPT
                     !.session = "open",
                     !.last_progress_log = task[t].clock,
                     !.last_heartbeat = task[t].clock,
                     !.pc = "get"])
       \/ Raise(t, Sent(t, "dest", "create_multipart_upload", 0, FALSE),
                Error("create_multipart_upload", 0))
    /\ UNCHANGED <<mainvars, envvars>>

\* lines 172-173: the stream yields the object's bytes as they are now, which
\* need not be as many as head_object reported.
GetObject(t) ==
    /\ IsRunning(t) /\ task[t].pc = "get"
    /\ \/ \E len \in 0..max_obj :
             Set(t, [Sent(t, "source", "get_object", 0, TRUE) EXCEPT
                        !.remaining = len, !.pc = "read"])
       \/ Set(t, [Sent(t, "source", "get_object", 0, FALSE) EXCEPT
                     !.err = Error("get_object", 0), !.pc = "abort_outer"])
    /\ UNCHANGED <<mainvars, envvars>>

\* Mutant: a read returns one byte at a time.
ChunkLen_Short(amt, left) == Min(1, left)

\* line 176: body.read(part_bytes) returns part_bytes bytes, or what is left
\* of the stream; nothing at its end.
ChunkLen(amt, left) == Min(amt, left)

\* Mutant: the stream gives the same bytes again.
Consume_None(left, n) == left

\* line 176: the bytes a read returns are taken off the stream.
Consume(left, n) == left - n

\* lines 175-178, 210-215
ReadChunk(t) ==
    /\ IsRunning(t) /\ task[t].pc = "read"
    /\ \/ LET n == ChunkLen(part_bytes, task[t].remaining) IN
             Set(t, [Sent(t, "source", "read", 0, TRUE) EXCEPT
                        !.chunk = n,
                        !.remaining = Consume(@, n),
                        !.pc = IF n > 0 THEN "upload"
                               ELSE IF task[t].parts = <<>> THEN "abort_empty"
                               ELSE "complete"])
       \/ Set(t, [Sent(t, "source", "read", 0, FALSE) EXCEPT
                     !.err = Error("read", 0), !.pc = "abort_outer"])
    /\ UNCHANGED <<mainvars, envvars>>

\* Mutant: a part number is skipped.
NextPartNum_Skip(n) == n + 2

\* line 196
NextPartNum(n) == n + 1

\* Mutant: the failure of a part upload is swallowed and the loop goes on.
UploadFailedPc_Continue(kind) == "read"

\* lines 189, 222: a ClientError enters the inner handler, any other
\* exception goes straight to the outer one.
UploadFailedPc(kind) == IF kind = "ClientError" THEN "abort_inner" ELSE "abort_outer"

\* Mutant: the counter grows by the chunk size asked for.
AddBytes_PartSize(done, n) == done + part_bytes

\* line 195: bytes_done += len(chunk)
AddBytes(done, n) == done + n

\* Mutant: the parts are uploaded through the source client.
UploadClient_Source == "source"

\* line 181: dest_s3.upload_part
UploadClient == "dest"

\* Mutant: the new part is put in front of the recorded ones.
RecordPart_Prepend(parts, n) == <<n>> \o parts

\* line 188: parts.append({"PartNumber": part_num, "ETag": ...})
RecordPart(parts, n) == Append(parts, n)

\* line 199
HeartbeatDue(r) == r.clock - r.last_heartbeat >= HEARTBEAT_SEC

\* line 202
ProgressDue(r) == r.clock - r.last_progress_log >= PROGRESS_INTERVAL_SEC

\* lines 180-208
UploadPart(t) ==
    /\ IsRunning(t) /\ task[t].pc = "upload"
    /\ \/ Set(t, [Sent(t, UploadClient, "upload_part", task[t].part_num, TRUE) EXCEPT
                     !.srv_parts = {p \in @ : p[1] # task[t].part_num}
                                       \cup {<<task[t].part_num, task[t].chunk>>},
                     !.parts = RecordPart(@, task[t].part_num),
                     !.bytes_done = AddBytes(@, task[t].chunk),
                     !.part_num = NextPartNum(@),
                     !.now = task[t].clock,
                     !.beat_at = IF HeartbeatDue(task[t]) THEN task[t].clock ELSE @,
                     !.last_heartbeat =
                         IF HeartbeatDue(task[t]) \/ ProgressDue(task[t])
                         THEN task[t].clock ELSE @,
                     !.last_progress_log =
                         IF ProgressDue(task[t]) THEN task[t].clock ELSE @,
                     !.pc = "read"])
       \/ \E kind \in {"ClientError", "Exception"} :
             Set(t, [Sent(t, UploadClient, "upload_part", task[t].part_num, FALSE) EXCEPT
                        !.err = Error(kind, 0),
                        !.pc = UploadFailedPc(kind)])
    /\ UNCHANGED <<mainvars, envvars>>

\* The service's answer to abort_multipart_upload.
Aborted(r, success) == IF success /\ r.session = "open" THEN "aborted" ELSE r.session

\* lines 189-193: the abort of the inner handler is not guarded; when it
\* raises, its exception replaces the RuntimeError that was to be raised.
AbortInner(t) ==
    /\ IsRunning(t) /\ task[t].pc = "abort_inner"
    /\ \E success \in BOOLEAN :
          Set(t, [Sent(t, "dest", "abort_multipart_upload", 0, success) EXCEPT
                     !.session = Aborted(task[t], success),
                     !.err = IF success THEN Error("upload_part", task[t].part_num)
                             ELSE Error("abort_multipart_upload", 0),
                     !.pc = "abort_outer"])
    /\ UNCHANGED <<mainvars, envvars>>

\* lines 210-214
AbortEmpty(t) ==
    /\ IsRunning(t) /\ task[t].pc = "abort_empty"
    /\ \E success \in BOOLEAN :
          Set(t, [Sent(t, "dest", "abort_multipart_upload", 0, success) EXCEPT
                     !.session = Aborted(task[t], success),
                     !.err = IF success THEN Error("empty_source", 0)
                             ELSE Error("abort_multipart_upload", 0),
                     !.pc = "abort_outer"])
    /\ UNCHANGED <<mainvars, envvars>>

\* lines 222-229: best-effort abort, its own failure swallowed; then raise.
AbortOuter(t) ==
    /\ IsRunning(t) /\ task[t].pc = "abort_outer"
    /\ \E success \in BOOLEAN :
          Raise(t, [Sent(t, "dest", "abort_multipart_upload", 0, success) EXCEPT
                       !.session = Aborted(task[t], success)],
                task[t].err)
    /\ UNCHANGED <<mainvars, envvars>>

\* Mutant: the handler of the try block runs after complete has returned.
CompletedPc_Abort == "abort_outer"

\* lines 216-231: complete is the last statement of the try block; the
\* verification follows it.
CompletedPc == "verify"

\* lines 216-221: the service assembles the parts the request lists.
Complete(t) ==
    /\ IsRunning(t) /\ task[t].pc = "complete"
    /\ \/ Set(t, [Sent(t, "dest", "complete_multipart_upload", 0, TRUE) EXCEPT
                     !.session = "completed",
                     !.dest = SumSizes({p \in task[t].srv_parts :
                                  \E i \in 1..Len(task[t].parts) : task[t].parts[i] = p[1]}),
                     !.pc = CompletedPc])
       \/ Set(t, [Sent(t, "dest", "complete_multipart_upload", 0, FALSE) EXCEPT
                     !.err = Error("complete_multipart_upload", 0),
                     !.pc = "abort_outer"])
    /\ UNCHANGED <<mainvars, envvars>>

\* Mutant: a destination at least as large as the source is accepted.
SizeVerified_AtLeast(dsize, tsize) == dsize >= tsize

\* line 238: the copy is accepted when dest_size == total_size
SizeVerified(dsize, tsize) == dsize = tsize

\* lines 231-242
VerifyHead(t) ==
    /\ IsRunning(t) /\ task[t].pc = "verify"
    /\ \/ LET r == [Sent(t, "dest", "head_object", 0, TRUE) EXCEPT
                       !.dest_size = task[t].dest] IN
             IF SizeVerified(r.dest_size, r.total_size)
             THEN LogDone(t, r)
             ELSE Raise(t, r, Error("size_mismatch", 0))
       \/ Raise(t, Sent(t, "dest", "head_object", 0, FALSE), Error("verify_head_object", 0))
    /\ UNCHANGED <<mainvars, envvars>>

CopyStep(t) ==
    \/ HeadSource(t)
    \/ LogEnter(t)
    \/ LogExit(t)
    \/ PutEmpty(t)
    \/ CreateMultipart(t)
    \/ GetObject(t)
    \/ ReadChunk(t)
    \/ UploadPart(t)
    \/ AbortInner(t)
    \/ AbortEmpty(t)
    \/ AbortOuter(t)
    \/ Complete(t)
    \/ VerifyHead(t)

----------------------------------------------------------------------------
(* main *)

\* sys.exit(code) or the end of main: the finally clause closes the log, and
\* the interpreter then waits for the worker threads that still run.
Exit(code, how) ==
    /\ exit_code' = code
    /\ outcome' = how
    /\ log_closed' = TRUE
    /\ mainpc' = IF \A t \in Submitted : task'[t].state \in Terminal
                 THEN "exited" ELSE "atexit"

\* Mutant: the except Exception clause exits with status zero.
ExitOnError_Zero == 1 - 1

\* line 405: sys.exit(1) of the except Exception clause
ExitOnError == 1

\* lines 395, 400: sys.exit(1) of the two except KeyboardInterrupt clauses
ExitOnInterrupt == 1

\* line 349: sys.exit(0) when the operator declines
ExitOnDecline == 0

\* lines 387, 409: full success
ExitOnSuccess == 0

\* lines 26-29: SOURCE_S3_URIS holds two prefixes
NumUris == 2

\* The listing before its first request.  The n-th key the source returns in
\* the run is written n; a page is the sequence of its keys.
NoListing ==
    [uri |-> 1,            \* index into SOURCE_S3_URIS of the prefix being listed
     pc |-> "paginate",    \* position in list_all_objects, "done" after the loop
     pages |-> <<>>,       \* pages the paginator has yielded in this call
     keys |-> <<>>,        \* list_all_objects' keys
     tasks |-> <<>>,       \* tasks of main(), the source key of each
     served |-> 0,         \* keys the source has returned in the run
     failed |-> FALSE]     \* a page request has failed

\* The keys of the pages, page after page.
RECURSIVE Flatten(_)
Flatten(pages) ==
    IF pages = <<>> THEN <<>> ELSE Head(pages) \o Flatten(Tail(pages))

\* Mutant: the keys of the latest page replace the keys collected so far.
ListKeys_LastPage(keys, page) == page

\* lines 104-105: keys.append(obj["Key"]) for each object of the page
ListKeys(keys, page) == keys \o page

\* Mutant: a failed page request ends the listing with the keys so far.
PageFailedPc_Return == "returned"

\* lines 95-106: list_all_objects has no handler, the exception leaves it
PageFailedPc == "raise"

\* lines 98-105: one page of the paginator.  The exception of a failed request
\* leaves list_all_objects and the loop of main() and reaches the
\* except Exception clause (lines 401-405).
ListPage ==
    /\ mainpc = "list"
    /\ listing.pc = "paginate"
    /\ UNCHANGED <<total, submitted, yielded, after, reported, interrupted,
                   done_msg, reply, keymap, sizing, envvars, task>>
    /\ \/ \E k \in 0..(NumTasks - listing.served), more \in BOOLEAN :
             /\ more => Len(listing.pages) + 1 < MaxPages
             /\ LET page == [i \in 1..k |-> listing.served + i]
                IN  listing' = [listing EXCEPT
                       !.pages = Append(@, page),
                       !.keys = ListKeys(@, page),
                       !.served = @ + k,
                       !.pc = IF more THEN "paginate" ELSE "returned"]
             /\ UNCHANGED <<mainpc, exit_code, outcome, log_closed>>
       \/ IF PageFailedPc = "raise"
          THEN /\ listing' = [listing EXCEPT !.failed = TRUE]
               /\ Exit(ExitOnError, "listing_failed")
          ELSE /\ listing' = [listing EXCEPT !.failed = TRUE, !.pc = PageFailedPc]
               /\ UNCHANGED <<mainpc, exit_code, outcome, log_closed>>

\* lines 306-326: the keys list_all_objects returned become tasks; after the
\* last prefix, total = len(tasks), and a run without tasks exits 1.
BuildTasks ==
    /\ mainpc = "list"
    /\ listing.pc = "returned"
    /\ UNCHANGED <<submitted, yielded, after, reported, interrupted, done_msg,
                   reply, keymap, sizing, envvars, task>>
    /\ LET tasks == listing.tasks \o listing.keys
           last == listing.uri = NumUris
       IN  /\ listing' = [listing EXCEPT
                  !.tasks = tasks, !.keys = <<>>, !.pages = <<>>,
                  !.uri = @ + 1,
                  !.pc = IF last THEN "done" ELSE "paginate"]
           /\ IF ~last
              THEN UNCHANGED <<mainpc, total, exit_code, outcome, log_closed>>
              ELSE /\ total' = Len(tasks)
                   /\ IF tasks = <<>>
                      THEN Exit(ExitOnError, "no_objects")
                      ELSE /\ mainpc' = "confirm"
                           /\ UNCHANGED <<exit_code, outcome, log_closed>>

\* Mutant: the copy starts whatever the operator answered.
Proceeds_Always(answer) == TRUE

\* lines 346-349: anything but y or yes cancels the run
Proceeds(answer) == answer = "y"

\* lines 344-354, 372, 376
Confirm ==
    /\ mainpc = "confirm"
    /\ UNCHANGED <<total, submitted, yielded, after, reported, interrupted,
                   done_msg, listing, keymap, sizing, envvars, task>>
    /\ \E answer \in {"y", "n"} :
          /\ reply' = answer
          /\ IF Proceeds(answer)
             THEN /\ mainpc' = IF workers = 1 THEN "seq" ELSE "submit"
                  /\ UNCHANGED <<exit_code, outcome, log_closed>>
             ELSE Exit(ExitOnDecline, "declined")

\* lines 372-374: workers == 1, the copy runs in the main thread.
SeqCall ==
    /\ mainpc = "seq"
    /\ submitted < total
    /\ IF submitted = 0 THEN TRUE ELSE task[submitted].state = "Succeeded"
    /\ submitted' = submitted + 1
    /\ Set(submitted + 1, [task[submitted + 1] EXCEPT !.state = "Running", !.pc = "head"])
    /\ UNCHANGED <<mainpc, total, yielded, after, exit_code, outcome, reported,
                   interrupted, done_msg, log_closed, prevars, envvars>>

\* lines 373-374, 401-409: copy_task returned or raised in the main thread.
SeqReturn ==
    /\ mainpc = "seq"
    /\ UNCHANGED <<total, submitted, yielded, after, interrupted, done_msg,
                   prevars, envvars, task>>
    /\ submitted >= 1
    /\ \/ /\ task[submitted].state = "Failed"
          /\ reported' = {submitted}
          /\ Exit(ExitOnError, "failed")
       \/ /\ task[submitted].state = "Succeeded"
          /\ submitted = total
          /\ UNCHANGED reported
          /\ Exit(ExitOnSuccess, "success")

\* line 377: executor.submit(copy_task, item), one item after the other.
Submit ==
    /\ mainpc = "submit"
    /\ submitted < total
    /\ submitted' = submitted + 1
    /\ Set(submitted + 1, [task[submitted + 1] EXCEPT !.state = "Pending"])
    /\ mainpc' = IF submitted + 1 = total THEN "collect" ELSE "submit"
    /\ UNCHANGED <<total, yielded, after, exit_code, outcome, reported,
                   interrupted, done_msg, log_closed, prevars, envvars>>

\* Mutant: the pool runs a failed task again.
Dispatchable_Retry(state) == state \in {"Pending", "Failed"}

\* line 377: each item is submitted once, and a worker takes a queued item once
Dispatchable(state) == state = "Pending"

\* ThreadPoolExecutor: an idle worker takes the oldest queued item; the
\* workers keep taking items until the queue is empty, also while
\* shutdown(wait=True) joins them.
Dispatch(t) ==
    /\ mainpc # "exited"
    /\ Dispatchable(task[t].state)
    /\ \A u \in TaskIds : task[u].state = "Pending" => t <= u
    /\ Cardinality(Running) < workers
    /\ Set(t, [task[t] EXCEPT !.state = "Running", !.pc = "head"])
    /\ UNCHANGED <<mainvars, envvars>>

Done == {t \in Submitted : task[t].state \in Terminal}

FailedTasks == {t \in TaskIds : task[t].state = "Failed"}

\* lines 379-380: as_completed yields a finished future; future.result()
\* returns, or raises the task's exception, which leaves the with-block.
Collect(t) ==
    /\ mainpc = "collect"
    /\ t \in Done \ yielded
    /\ \/ /\ task[t].state = "Succeeded"
          /\ yielded' = yielded \cup {t}
          /\ mainpc' = IF yielded' = 1..total THEN "shutdown" ELSE "collect"
          /\ after' = IF yielded' = 1..total THEN "normal" ELSE after
          /\ UNCHANGED reported
       \/ /\ task[t].state = "Failed"
          /\ reported' = {t}
          /\ mainpc' = "shutdown"
          /\ after' = "error"
          /\ UNCHANGED yielded
    /\ UNCHANGED <<total, submitted, exit_code, outcome, interrupted, done_msg,
                   log_closed, prevars, envvars, task>>

\* ThreadPoolExecutor.__exit__: shutdown(wait=True) has joined every worker;
\* main goes on with what left the with-block.
ShutdownDone ==
    /\ mainpc = "shutdown"
    /\ UNCHANGED <<total, submitted, yielded, after, reported, interrupted,
                   done_msg, prevars, envvars, task>>
    /\ AllJoined
    /\ \/ /\ after \in {"normal", "sysexit0"}
          /\ Exit(ExitOnSuccess, "success")
       \/ /\ after = "error"
          /\ Exit(ExitOnError, "failed")
       \/ /\ after \in {"sysexit1", "interrupt"}
          /\ Exit(ExitOnInterrupt, "cancelled")

\* lines 381-395: KeyboardInterrupt inside the as_completed loop.
InterruptCollect ==
    /\ mainpc = "collect"
    /\ interrupted' = TRUE
    /\ mainpc' = "shutdown"
    /\ IF Cardinality(Done) = total
       THEN /\ done_msg' = done_msg
            /\ IF FailedTasks # {}
               THEN /\ reported' = {CHOOSE t \in FailedTasks :
                                       \A u \in FailedTasks : t <= u}
                    /\ after' = "error"
               ELSE /\ reported' = reported
                    /\ after' = "sysexit0"
       ELSE /\ done_msg' = Cardinality(Done)
            /\ reported' = reported
            /\ after' = "sysexit1"
    /\ UNCHANGED <<total, submitted, yielded, exit_code, outcome, log_closed,
                   prevars, envvars, task>>

\* line 377 is outside the inner try: the interrupt leaves the with-block,
\* which joins the workers, and reaches the clause of lines 396-400.
InterruptSubmit ==
    /\ mainpc = "submit"
    /\ interrupted' = TRUE
    /\ mainpc' = "shutdown"
    /\ after' = "interrupt"
    /\ UNCHANGED <<total, submitted, yielded, exit_code, outcome, reported,
                   done_msg, log_closed, prevars, envvars, task>>

\* lines 396-400: KeyboardInterrupt while listing, at the prompt, or while
\* the with-block is joining the workers (the join is abandoned).
InterruptMain ==
    /\ mainpc \in {"list", "confirm", "shutdown"}
    /\ UNCHANGED <<total, submitted, yielded, after, reported, done_msg,
                   prevars, envvars, task>>
    /\ interrupted' = TRUE
    /\ Exit(ExitOnInterrupt, "cancelled")

\* lines 372-374, 396-400: KeyboardInterrupt while the main thread is inside
\* copy_one_object (it is no Exception, so no handler of the copy catches
\* it), or just before or after the call.
InterruptSeq ==
    /\ mainpc = "seq"
    /\ \A t \in Submitted : task[t].state # "Failed"
    /\ interrupted' = TRUE
    /\ task' = [t \in TaskIds |->
                  IF task[t].state = "Running"
                  THEN [task[t] EXCEPT !.state = "Cancelled", !.pc = "done",
                                       !.logging = FALSE,
                                       !.err = Error("KeyboardInterrupt", 0)]
                  ELSE task[t]]
    /\ Exit(ExitOnInterrupt, "cancelled")
    /\ UNCHANGED <<total, submitted, yielded, after, reported, done_msg, prevars, envvars>>

\* The interpreter exits once the last worker thread has ended.
AtExit ==
    /\ mainpc = "atexit"
    /\ AllJoined
    /\ mainpc' = "exited"
    /\ UNCHANGED <<total, submitted, yielded, after, exit_code, outcome, reported,
                   interrupted, done_msg, log_closed, prevars, envvars, task>>

----------------------------------------------------------------------------
(* The whole run. *)

Init ==
    /\ mainpc = "list"
    /\ total = -1
    /\ max_obj = MaxOf(RunSizes)
    /\ part_bytes \in (1..MaxPartBytes) \cap RunSizes
    /\ submitted = 0
    /\ yielded = {}
    /\ after = "none"
    /\ exit_code = -1
    /\ outcome = "none"
    /\ reported = {}
    /\ interrupted = FALSE
    /\ done_msg = -1
    /\ log_closed = FALSE
    /\ listing = NoListing
    /\ reply = "none"
    /\ keymap = NoKeyMap
    /\ sizing = NoSizing
    /\ task = [t \in 1..NumTasks |-> NewTask]

Next ==
    \/ ListPage
    \/ BuildTasks
    \/ Confirm
    \/ SeqCall
    \/ SeqReturn
    \/ Submit
    \/ ShutdownDone
    \/ InterruptCollect
    \/ InterruptSubmit
    \/ InterruptMain
    \/ InterruptSeq
    \/ AtExit
    \/ \E t \in TaskIds : Dispatch(t) \/ Collect(t) \/ CopyStep(t)

Spec == Init /\ [][Next]_vars

----------------------------------------------------------------------------
(* A single invocation of copy_one_object. *)

InitCopy ==
    /\ mainpc = "seq"
    /\ total = 1
    /\ part_bytes \in 1..MaxPartBytes
    /\ max_obj = MaxCopySize
    /\ submitted = 1
    /\ yielded = {}
    /\ after = "none"
    /\ exit_code = -1
    /\ outcome = "none"
    /\ reported = {}
    /\ interrupted = FALSE
    /\ done_msg = -1
    /\ log_closed = FALSE
    /\ listing = [NoListing EXCEPT !.uri = NumUris + 1, !.pc = "done",
                                   !.tasks = <<1>>, !.served = 1]
    /\ reply = "y"
    /\ keymap = NoKeyMap
    /\ sizing = NoSizing
    /\ task = [t \in 1..NumTasks |->
                 IF t = 1 THEN [NewTask EXCEPT !.state = "Running", !.pc = "head"]
                 ELSE NewTask]

NextCopy == CopyStep(1)

SpecCopy == InitCopy /\ [][NextCopy]_vars

\* The thread that runs copy_one_object is scheduled and every request it
\* sends returns, with a result or an exception.
SpecCopyLive == InitCopy /\ [][NextCopy]_vars /\ WF_vars(NextCopy)

----------------------------------------------------------------------------
(* The worker threads of a pool that was handed more tasks than it has     *)
(* workers (lines 376-377).  The source objects are gone by the time they  *)
(* are probed, so that every copy ends at its first request.               *)

PoolTasks == MAX_WORKERS + PoolExtra

InitPool ==
    /\ mainpc = "collect"
    /\ total = PoolTasks
    /\ part_bytes = 1
    /\ max_obj = -1
    /\ submitted = PoolTasks
    /\ yielded = {}
    /\ after = "none"
    /\ exit_code = -1
    /\ outcome = "none"
    /\ reported = {}
    /\ interrupted = FALSE
    /\ done_msg = -1
    /\ log_closed = FALSE
    /\ listing = [NoListing EXCEPT !.uri = NumUris + 1, !.pc = "done",
                                   !.tasks = [i \in 1..PoolTasks |-> i],
                                   !.served = PoolTasks]
    /\ reply = "y"
    /\ keymap = NoKeyMap
    /\ sizing = NoSizing
    /\ task = [t \in 1..PoolTasks |-> [NewTask EXCEPT !.state = "Pending"]]

NextPool == \E t \in TaskIds : Dispatch(t) \/ HeadSource(t)

SpecPool == InitPool /\ [][NextPool]_vars

----------------------------------------------------------------------------
(* The key mapping of main(): one source prefix, one listed key. *)

Chars == {"a", "/"}

Strs(n) == UNION {[1..k -> Chars] : k \in 0..n}

\* The destination prefixes a run is configured with.
DestPrefixes == {<<>>, <<"d">>, <<"d", "/">>}

\* s.rstrip("/")
RECURSIVE RStrip(_)
RStrip(s) ==
    IF s # <<>> /\ s[Len(s)] = "/" THEN RStrip(SubSeq(s, 1, Len(s) - 1)) ELSE s

\* s.lstrip("/")
RECURSIVE LStrip(_)
LStrip(s) ==
    IF s # <<>> /\ s[1] = "/" THEN LStrip(Tail(s)) ELSE s

\* s.startswith(p)
StartsWith(s, p) == Len(p) <= Len(s) /\ SubSeq(s, 1, Len(p)) = p

\* s[n:]
Drop(s, n) == IF n >= Len(s) THEN <<>> ELSE SubSeq(s, n + 1, Len(s))

\* lines 265-267 and 303-305: x.rstrip("/"), then "/" appended unless empty
WithSlash(x) == IF RStrip(x) # <<>> THEN RStrip(x) \o <<"/">> ELSE <<>>

\* lines 314-316
DestSubpath(pre, base) ==
    LET d == IF base # <<>> /\ StartsWith(pre, base)
             THEN LStrip(Drop(pre, Len(base)))
             ELSE pre
    IN  IF d # <<>> THEN RStrip(d) \o <<"/">> ELSE d

\* line 319
Rel(pre, src_key) ==
    IF pre # <<>> THEN LStrip(Drop(src_key, Len(pre))) ELSE src_key

\* line 320
DestKey(dest_prefix, dest_subpath, rel) ==
    IF dest_subpath # <<>> THEN dest_prefix \o dest_subpath \o rel
    ELSE IF dest_prefix # <<>> THEN dest_prefix \o rel
    ELSE rel

\* lines 261-267, 292, 303-316: what main() derives from the configuration
\* before it maps the keys of a prefix.
MapPrefix ==
    /\ keymap.pc = "config"
    /\ LET list_prefix == WithSlash(keymap.prefix)
           pre == RStrip(list_prefix)
       IN  keymap' = [keymap EXCEPT
              !.list_prefix = list_prefix,
              !.pre = pre,
              !.dest_prefix = WithSlash(keymap.dest),
              !.dest_subpath = DestSubpath(pre, keymap.base),
              !.pc = "keys"]
    /\ UNCHANGED <<mainpc, total, submitted, yielded, after, exit_code, outcome,
                   reported, interrupted, done_msg, log_closed, listing, reply,
                   sizing, envvars, task>>

\* lines 318-321: a key the listing returned under list_prefix is mapped.
MapKey ==
    /\ keymap.pc = "keys"
    /\ \E rest \in Strs(MaxKeyLen) :
          LET src_key == keymap.list_prefix \o rest
              rel == Rel(keymap.pre, src_key)
          IN  /\ src_key # <<>>
              /\ keymap' = [keymap EXCEPT
                    !.src_key = src_key,
                    !.rel = rel,
                    !.dkey = DestKey(keymap.dest_prefix, keymap.dest_subpath, rel),
                    !.tasks = Append(@, <<src_key,
                        DestKey(keymap.dest_prefix, keymap.dest_subpath, rel)>>),
                    !.pc = "mapped"]
    /\ UNCHANGED <<mainpc, total, submitted, yielded, after, exit_code, outcome,
                   reported, interrupted, done_msg, log_closed, listing, reply,
                   sizing, envvars, task>>

InitMap ==
    /\ mainpc = "list"
    /\ total = -1
    /\ part_bytes = 1
    /\ max_obj = 0
    /\ submitted = 0
    /\ yielded = {}
    /\ after = "none"
    /\ exit_code = -1
    /\ outcome = "none"
    /\ reported = {}
    /\ interrupted = FALSE
    /\ done_msg = -1
    /\ log_closed = FALSE
    /\ listing = NoListing
    /\ reply = "none"
    /\ \E p \in Strs(MaxKeyLen), b \in Strs(MaxKeyLen), d \in DestPrefixes :
          keymap = [NoKeyMap EXCEPT !.pc = "config", !.prefix = LStrip(p),
                                    !.base = b, !.dest = d]
    /\ sizing = NoSizing
    /\ task = [t \in 1..NumTasks |-> NewTask]

NextMap == MapPrefix \/ MapKey

SpecMap == InitMap /\ [][NextMap]_vars

----------------------------------------------------------------------------
(* The key mapping of two keys listed under one source prefix. *)

\* lines 318-321: the next iteration of the loop maps another key of the
\* listing, which returns no key twice.
MapNext ==
    /\ keymap.pc = "mapped" /\ Len(keymap.tasks) = 1
    /\ \E rest \in Strs(MaxPairLen) :
          LET src_key == keymap.list_prefix \o rest
              rel == Rel(keymap.pre, src_key)
          IN  /\ src_key # <<>>
              /\ src_key # keymap.src_key
              /\ keymap' = [keymap EXCEPT
                    !.src_key = src_key,
                    !.rel = rel,
                    !.dkey = DestKey(keymap.dest_prefix, keymap.dest_subpath, rel),
                    !.tasks = Append(@, <<src_key,
                        DestKey(keymap.dest_prefix, keymap.dest_subpath, rel)>>)]
    /\ UNCHANGED <<mainpc, total, submitted, yielded, after, exit_code, outcome,
                   reported, interrupted, done_msg, log_closed, listing, reply,
                   sizing, envvars, task>>

InitPair ==
    /\ mainpc = "list"
    /\ total = -1
    /\ part_bytes = 1
    /\ max_obj = 0
    /\ submitted = 0
    /\ yielded = {}
    /\ after = "none"
    /\ exit_code = -1
    /\ outcome = "none"
    /\ reported = {}
    /\ interrupted = FALSE
    /\ done_msg = -1
    /\ log_closed = FALSE
    /\ listing = NoListing
    /\ reply = "none"
    /\ \E p \in Strs(MaxPairLen), b \in Strs(MaxPairLen), d \in DestPrefixes :
          keymap = [NoKeyMap EXCEPT !.pc = "config", !.prefix = LStrip(p),
                                    !.base = b, !.dest = d]
    /\ sizing = NoSizing
    /\ task = [t \in 1..NumTasks |-> NewTask]

NextPair == MapPrefix \/ MapKey \/ MapNext

SpecPair == InitPair /\ [][NextPair]_vars

----------------------------------------------------------------------------
(* The number of parts of a multipart copy, for sizes counted in MiB. *)

\* line 44: DEFAULT_PART_BYTES = 100 * 1024 * 1024, counted in MiB
DEFAULT_PART_MIB == 100

\* line 43: "S3 allows max 10,000 parts"
MaxPartCount == 10000

\* line 43: "For 1TB use 100MB parts", 1 TiB counted in MiB
LargestObjectMiB == 1024 * 1024

\* Object sizes from 8 GiB to 1 TiB in steps of 8 GiB, and 250 MiB.
ObjectSizesMiB == {k * 8192 : k \in 1..128} \cup {250}

\* lines 175-196: one part per read that returned bytes
PartsNeeded(size, part) == CeilDiv(size, part)

\* lines 175-196: the parts the loop uploads for the whole object.
CountParts ==
    /\ sizing.pc = "args"
    /\ sizing' = [sizing EXCEPT !.parts = PartsNeeded(sizing.size, sizing.part),
                                !.pc = "counted"]
    /\ UNCHANGED <<mainpc, total, submitted, yielded, after, exit_code, outcome,
                   reported, interrupted, done_msg, log_closed, listing, reply,
                   keymap, envvars, task>>

InitParts ==
    /\ mainpc = "list"
    /\ total = -1
    /\ part_bytes = 1
    /\ max_obj = 0
    /\ submitted = 0
    /\ yielded = {}
    /\ after = "none"
    /\ exit_code = -1
    /\ outcome = "none"
    /\ reported = {}
    /\ interrupted = FALSE
    /\ done_msg = -1
    /\ log_closed = FALSE
    /\ listing = NoListing
    /\ reply = "none"
    /\ keymap = NoKeyMap
    /\ \E size \in ObjectSizesMiB :
          sizing = [NoSizing EXCEPT !.pc = "args", !.size = size,
                                    !.part = DEFAULT_PART_MIB]
    /\ task = [t \in 1..NumTasks |-> NewTask]

NextParts == CountParts

SpecParts == InitParts /\ [][NextParts]_vars

----------------------------------------------------------------------------
(* The copy of one object with the wall clock. *)

\* The time that passes in one step of the clock.
Delays == {PROGRESS_INTERVAL_SEC, HEARTBEAT_SEC}

\* The calls in which the loop of lines 171-208 blocks.
Blocking == {"get", "read", "upload"}

\* Time passes while the worker is inside get_object, body.read or
\* upload_part (the transport's read timeout is 600 s, line 277); the clock
\* is followed until the heartbeat interval has passed once.
Tick(t) ==
    /\ IsRunning(t) /\ task[t].pc \in Blocking
    /\ task[t].clock <= HEARTBEAT_SEC
    /\ \E d \in Delays : Set(t, [task[t] EXCEPT !.clock = @ + d])
    /\ UNCHANGED <<mainvars, envvars>>

NextBeat == CopyStep(1) \/ Tick(1)

InitBeat ==
    /\ mainpc = "seq"
    /\ total = 1
    /\ part_bytes \in 1..MaxPartBytes
    /\ max_obj = MaxBeatSize
    /\ submitted = 1
    /\ yielded = {}
    /\ after = "none"
    /\ exit_code = -1
    /\ outcome = "none"
    /\ reported = {}
    /\ interrupted = FALSE
    /\ done_msg = -1
    /\ log_closed = FALSE
    /\ listing = [NoListing EXCEPT !.uri = NumUris + 1, !.pc = "done",
                                   !.tasks = <<1>>, !.served = 1]
    /\ reply = "y"
    /\ keymap = NoKeyMap
    /\ sizing = NoSizing
    /\ task = [t \in 1..1 |-> [NewTask EXCEPT !.state = "Running", !.pc = "head"]]

SpecBeat == InitBeat /\ [][NextBeat]_vars

----------------------------------------------------------------------------
(* What the requests of a task show. *)

IsUpload(r) == r.op = "upload_part"

\* The upload_part requests of task t, in the order they were issued.
UploadReqs(t) == SelectSeq(task[t].reqs, IsUpload)

Issued(t, o) == {i \in 1..Len(task[t].reqs) : task[t].reqs[i].op = o}

MultipartOps == {"create_multipart_upload", "upload_part",
                 "complete_multipart_upload", "abort_multipart_upload"}

Ended(t) == task[t].state \in {"Succeeded", "Failed"}

Verified(t) == task[t].dest_size # -1

----------------------------------------------------------------------------
(* Claims: copy_one_object (SpecCopy). *)

\* C1: a copy that succeeded left a destination object of the size probed at
\* the start, and a copy of a non-empty object succeeded only after the
\* verification probe returned that size; once the destination was probed,
\* the copy succeeded if and only if the probed size equals the source size,
\* and a different size makes it fail with the size-mismatch error.
C1_SizeRoundTrip ==
    \A t \in TaskIds :
        /\ task[t].state = "Succeeded" => task[t].dest = task[t].total_size
        /\ task[t].state = "Succeeded" /\ task[t].total_size > 0 => Verified(t)
        /\ Verified(t) =>
              /\ task[t].session = "completed"
              /\ task[t].state = "Succeeded" <=> task[t].dest_size = task[t].total_size
              /\ task[t].dest_size # task[t].total_size =>
                    task[t].state = "Failed" /\ task[t].err.kind = "size_mismatch"

\* C1 witness: complete succeeded, the sizes differ, the task failed.
C1_Witness ==
    \E t \in TaskIds :
        /\ task[t].session = "completed"
        /\ Verified(t)
        /\ task[t].dest_size # task[t].total_size
        /\ task[t].state = "Failed"

\* C2: for a source object of probed size 0 the only request sent to the
\* destination is one put_object, and no multipart session is ever created,
\* fed, completed or aborted.
C2_EmptyObjectDirectPut ==
    \A t \in TaskIds :
        task[t].total_size = 0 =>
            /\ task[t].session = "none"
            /\ \A i \in 1..Len(task[t].reqs) :
                  /\ task[t].reqs[i].op \notin MultipartOps
                  /\ task[t].reqs[i].client = "dest" => task[t].reqs[i].op = "put_object"
            /\ Cardinality(Issued(t, "put_object")) <= 1
            /\ Ended(t) => Cardinality(Issued(t, "put_object")) = 1
            /\ task[t].state = "Succeeded" => task[t].dest = 0

\* C2 witness: an empty object was copied.
C2_Witness ==
    \E t \in TaskIds :
        /\ task[t].total_size = 0
        /\ task[t].state = "Succeeded"
        /\ Issued(t, "put_object") # {}

\* C3: the i-th upload_part request of a copy carries PartNumber i; when
\* complete is issued their number is ceil(bytes streamed / part_bytes) and
\* each of them succeeded, and for a copy that succeeded it is
\* ceil(total_size / part_bytes).
C3_PartNumbersContiguous ==
    \A t \in TaskIds :
        LET ups == UploadReqs(t) IN
        /\ \A i \in 1..Len(ups) : ups[i].n = i
        /\ Issued(t, "complete_multipart_upload") # {} =>
              /\ Len(ups) = CeilDiv(task[t].bytes_done, part_bytes)
              /\ \A i \in 1..Len(ups) : ups[i].ok
              /\ task[t].parts = [i \in 1..Len(ups) |-> i]
        /\ task[t].state = "Succeeded" /\ task[t].total_size > 0 =>
              Len(ups) = CeilDiv(task[t].total_size, part_bytes)

\* C3 witness: a verified copy of three parts or more, the last one short.
C3_Witness ==
    \E t \in TaskIds :
        /\ task[t].state = "Succeeded"
        /\ Len(UploadReqs(t)) >= 3
        /\ task[t].total_size % part_bytes # 0

\* C4: after an upload_part request failed, the task sends nothing but abort
\* requests (no further part, no complete, no second create or read of the
\* object), and it ends Failed with an abort requested.
C4_PartFailureAborts ==
    \A t \in TaskIds :
        \A i \in 1..Len(task[t].reqs) :
            task[t].reqs[i].op = "upload_part" /\ ~task[t].reqs[i].ok =>
                /\ \A j \in (i + 1)..Len(task[t].reqs) :
                      task[t].reqs[j].op = "abort_multipart_upload"
                /\ task[t].state # "Succeeded"
                /\ task[t].pc = "done" =>
                      /\ task[t].state = "Failed"
                      /\ i < Len(task[t].reqs)

\* C4 witness: part 2 failed and the task has ended.
C4_Witness ==
    \E t \in TaskIds :
        /\ task[t].pc = "done"
        /\ \E i \in 1..Len(task[t].reqs) :
              /\ task[t].reqs[i].op = "upload_part"
              /\ task[t].reqs[i].n = 2
              /\ ~task[t].reqs[i].ok

\* The error is the one of the part upload: the RuntimeError of line 193, or
\* the exception upload_part raised when it is no ClientError.
IsPartUploadError(e) == e.kind \in {"upload_part", "Exception"}

\* C6: when the abort requested after a failed part upload fails too, the
\* task still fails with the error of the part upload.
C6_AbortFailureSwallowed ==
    \A t \in TaskIds :
        (/\ task[t].pc = "done"
         /\ \E i \in 1..Len(task[t].reqs) :
               /\ task[t].reqs[i].op = "upload_part"
               /\ ~task[t].reqs[i].ok
               /\ \E j \in (i + 1)..Len(task[t].reqs) : ~task[t].reqs[j].ok)
        => IsPartUploadError(task[t].err)

----------------------------------------------------------------------------
(* Claims: the run (Spec). *)

Planned == IF total > 0 THEN 1..total ELSE {}

\* C5: in a run that was not interrupted and in which a task failed, every
\* planned task has run to Succeeded or Failed when the process exits; and
\* as long as the process lives, a queued task can be taken by a worker
\* whatever the other tasks did.
C5_FailureDoesNotStopSiblings ==
    /\ mainpc = "exited" /\ ~interrupted /\ FailedTasks # {} =>
          \A t \in Planned : Ended(t)
    /\ mainpc # "exited" =>
          \A t \in TaskIds :
              task[t].state = "Pending" /\ (\A u \in 1..(t - 1) : task[u].state # "Pending") =>
                  ENABLED Dispatch(t)

\* C5 witness: a part upload of one task failed, and a task submitted after
\* it was copied and verified.
C5_Witness ==
    /\ mainpc = "exited" /\ ~interrupted
    /\ \E t, u \in Planned :
          /\ t < u
          /\ task[t].state = "Failed" /\ task[t].err.kind = "upload_part"
          /\ task[u].state = "Succeeded" /\ Verified(u)

\* C7: once the process has exited, uninterrupted and with every task
\* finished, the failures the run has named are exactly the tasks that ended
\* Failed.
C7_SummaryNamesEveryFailure ==
    mainpc = "exited" /\ ~interrupted /\ (\A t \in Planned : Ended(t)) =>
        reported = FailedTasks

\* The exit status of each of the three outcomes.
ExitStatus(how) ==
    CASE how = "success" -> ExitOnSuccess
      [] how = "failed" -> ExitOnError
      [] how = "cancelled" -> ExitOnInterrupt

\* C8: the exit status of a run that ended in full success, partial failure
\* or cancellation is the status of none of the other two outcomes.
C8_ExitStatusDistinguishes ==
    mainpc = "exited" /\ outcome \in {"success", "failed", "cancelled"} =>
        \A how \in {"success", "failed", "cancelled"} \ {outcome} :
            exit_code # ExitStatus(how)

AllVerified ==
    /\ total >= 1
    /\ \A t \in Planned :
          /\ task[t].state = "Succeeded"
          /\ task[t].total_size > 0 => task[t].dest_size = task[t].total_size

\* C9 as stated: the exit status is zero only when every planned task has
\* ended Succeeded.
C9_ZeroOnlyOnFullSuccess ==
    exit_code = 0 => AllVerified

\* C9 amended: the exit status is zero only when every planned task has ended
\* Succeeded (a non-empty object with its size verified), or when the
\* operator declined the prompt and no task was started.
C9_ZeroOnlySuccessOrDeclined ==
    exit_code = 0 =>
        \/ AllVerified
        \/ /\ outcome = "declined"
           /\ \A t \in TaskIds : task[t].state = "Unsubmitted" /\ task[t].reqs = <<>>

\* C9 witness: two or more tasks, all verified, exit status zero.
C9_Witness ==
    /\ mainpc = "exited" /\ exit_code = 0
    /\ total >= 2
    /\ AllVerified
    /\ \E t \in Planned : task[t].total_size > 0

\* C10: once an interrupt has been received, no task goes from Pending to
\* Running.
C10_NoDispatchAfterInterrupt ==
    [][interrupted =>
          \A t \in TaskIds : ~(task[t].state = "Pending" /\ task'[t].state = "Running")]_vars

----------------------------------------------------------------------------
(* Claims: interruption, the pool, the listing. *)

SessionSettled(t) ==
    \/ task[t].session \in {"none", "completed", "aborted"}
    \/ Issued(t, "abort_multipart_upload") # {}

\* C11: once an interrupted run has exited, every task that had opened a
\* multipart upload has ended as Succeeded or Failed, and its upload is
\* completed or an abort was requested for it; this holds for a run of a
\* single task, which is copied without the pool, as for any other.
C11_InterruptedTasksSettle ==
    (mainpc = "exited" /\ interrupted) =>
        \A t \in TaskIds :
            task[t].session # "none" => Ended(t) /\ SessionSettled(t)

\* C12: the N of "Interrupted (N/M completed)" is the number of tasks that
\* have Succeeded when the process exits.
C12_InterruptedCountIsSucceeded ==
    (mainpc = "exited" /\ done_msg # -1) =>
        done_msg = Cardinality({t \in TaskIds : task[t].state = "Succeeded"})

\* C13: at every moment the number of Running tasks is at most
\* min(MAX_WORKERS, number of tasks).
C13_RunningWithinCap ==
    Cardinality(Running) <= Min(MAX_WORKERS, Cardinality(Planned))

\* The cap binds: all sixteen workers are busy and a task waits in the queue.
C13_Witness ==
    /\ Cardinality(Planned) > MAX_WORKERS
    /\ Cardinality(Running) = MAX_WORKERS
    /\ \E t \in TaskIds : task[t].state = "Pending"

NothingStarted ==
    \A t \in TaskIds : task[t].state = "Unsubmitted" /\ task[t].reqs = <<>>

\* C14: if a page request fails while a source prefix is listed, the run ends
\* in failure with no task started and no request sent to the destination;
\* tasks are only started from the keys of a listing that ran to its end.
C14_ListingFailureStartsNothing ==
    /\ listing.failed =>
          /\ exit_code = ExitOnError
          /\ outcome = "listing_failed"
          /\ NothingStarted
    /\ ~NothingStarted =>
          /\ listing.pc = "done"
          /\ Len(listing.tasks) = listing.served
          /\ total = listing.served

\* The request for the second page of the second prefix fails after keys of
\* both prefixes were returned.
C14_Witness ==
    /\ listing.failed
    /\ listing.tasks # <<>>
    /\ listing.keys # <<>>

\* C15: list_all_objects returns the keys of every page the paginator yields
\* under the prefix, in page order, each key once; it does not stop at the
\* first page.
C15_ListReturnsEveryKey ==
    listing.pc = "returned" =>
        /\ listing.keys = Flatten(listing.pages)
        /\ \A i, j \in 1..Len(listing.keys) :
              listing.keys[i] = listing.keys[j] => i = j

\* A listing of two pages with keys on both.
C15_Witness ==
    /\ listing.pc = "returned"
    /\ Len(listing.pages) = 2
    /\ listing.pages[1] # <<>>
    /\ listing.pages[2] # <<>>

DestWrites == {"put_object", "create_multipart_upload", "upload_part",
               "complete_multipart_upload"}

\* Task t has issued a request that writes to the destination.
WroteToDest(t) ==
    \E i \in 1..Len(task[t].reqs) :
        task[t].reqs[i].client = "dest" /\ task[t].reqs[i].op \in DestWrites

\* C18: a request that writes to the destination (put, create, upload part,
\* complete) is only issued after every source prefix was listed, the tasks
\* were built from the keys and the operator answered yes; after the operator
\* declined none is issued.
C18_NoWriteBeforeConfirmation ==
    \A t \in TaskIds :
        WroteToDest(t) =>
            /\ listing.pc = "done"
            /\ listing.uri = NumUris + 1
            /\ total = Len(listing.tasks)
            /\ reply = "y"

\* A task of a run of two keys has written to the destination.
C18_Witness ==
    /\ total = 2
    /\ reply = "y"
    /\ \E t \in TaskIds : WroteToDest(t)

----------------------------------------------------------------------------
(* Claims: the order and the end of a multipart upload (SpecCopy). *)

IsSessionReq(r) ==
    r.op \in {"create_multipart_upload", "upload_part", "complete_multipart_upload"}

\* The create, upload_part and complete requests of task t, in order.
SessionReqs(t) == SelectSeq(task[t].reqs, IsSessionReq)

\* C19: the requests of a multipart upload are issued in the order create,
\* part 1 .. part N, complete, each after the one before it has returned
\* successfully, and complete is called with the N recorded parts in
\* ascending order.
C19_SessionRequestsInOrder ==
    \A t \in TaskIds :
        LET s == SessionReqs(t)
            n == Cardinality(Issued(t, "upload_part"))
        IN  /\ s # <<>> => s[1].op = "create_multipart_upload"
            /\ \A i \in 2..Len(s) :
                  /\ s[i - 1].ok
                  /\ s[i - 1].op # "complete_multipart_upload"
                  /\ s[i].op # "create_multipart_upload"
                  /\ s[i].op = "upload_part" => s[i].n = i - 1
            /\ Issued(t, "complete_multipart_upload") # {} =>
                  /\ n >= 1
                  /\ task[t].parts = [i \in 1..n |-> i]

\* A multipart upload of three parts was completed.
C19_Witness ==
    \E t \in TaskIds :
        /\ task[t].session = "completed"
        /\ Len(task[t].parts) = 3

\* The source reported a size above zero and the first read of its stream
\* returned no bytes.
EmptyStream(t) ==
    /\ task[t].total_size > 0
    /\ Issued(t, "upload_part") = {}
    /\ \E i \in Issued(t, "read") : task[t].reqs[i].ok

\* C20: when the source reported a nonzero size and its stream yields no
\* bytes, the copy requests the abort of the upload, never issues complete,
\* and ends Failed with the empty-source error; no destination object exists.
C20_EmptyStreamFails ==
    \A t \in TaskIds :
        (EmptyStream(t) /\ task[t].pc = "done") =>
            /\ task[t].state = "Failed"
            /\ task[t].err.kind = "empty_source"
            /\ Issued(t, "abort_multipart_upload") # {}
            /\ Issued(t, "complete_multipart_upload") = {}
            /\ task[t].dest = -1

----------------------------------------------------------------------------
(* Claims: the key mapping (SpecMap). *)

NoDoubleSlash(s) == \A i \in 1..(Len(s) - 1) : ~(s[i] = "/" /\ s[i + 1] = "/")

\* A base prefix that names a folder, and a key that names an object and has
\* no empty path segment.
PlainKeyAndBase ==
    /\ keymap.src_key[Len(keymap.src_key)] # "/"
    /\ keymap.base # <<>>
    /\ keymap.base[1] # "/"
    /\ keymap.base[Len(keymap.base)] = "/"
    /\ NoDoubleSlash(keymap.base)
    /\ NoDoubleSlash(keymap.src_key)

\* C16: for every listed source key that begins with the source base prefix,
\* the destination key is the destination prefix followed by the source key
\* without the base prefix; this holds for every list prefix at or below the
\* base, the base itself included.
C16_DestKeyStripsBase ==
    (keymap.pc = "mapped" /\ PlainKeyAndBase
        /\ StartsWith(keymap.list_prefix, keymap.base)
        /\ StartsWith(keymap.src_key, keymap.base)) =>
        keymap.dkey = keymap.dest_prefix \o Drop(keymap.src_key, Len(keymap.base))

----------------------------------------------------------------------------
(* Claims: requests, sizes and the states of a task. *)

\* The size probe of task t has failed.
ProbeFailed(t) == task[t].reqs # <<>> /\ ~task[t].reqs[1].ok

\* C21: when the size probe of the source fails, the copy fails and the
\* probe is the only request it has issued: nothing is sent to the
\* destination and no read stream is opened on the source.
C21_ProbeFailureSendsNothing ==
    \A t \in TaskIds :
        ProbeFailed(t) =>
            /\ task[t].state = "Failed"
            /\ Len(task[t].reqs) = 1
            /\ task[t].session = "none"
            /\ task[t].dest = -1

C21_Witness ==
    \E t \in TaskIds : ProbeFailed(t) /\ task[t].err.kind = "head_object"

\* The size of part n of task t as the service holds it.
PartSize(t, n) == (CHOOSE p \in task[t].srv_parts : p[1] = n)[2]

\* C22: in a multipart copy of an object of size S with chunk size C, every
\* part but the last carries C bytes; the last of the N parts of a copy that
\* succeeded carries S - (N-1)*C bytes, and the sizes sum to S.
C22_PartSizes ==
    \A t \in TaskIds :
        LET n == Len(task[t].parts) IN
        /\ \A i \in 1..n :
              /\ \E p \in task[t].srv_parts : p[1] = i
              /\ i < n => PartSize(t, i) = part_bytes
              /\ PartSize(t, i) \in 1..part_bytes
        /\ (task[t].state = "Succeeded" /\ task[t].total_size > 0) =>
              /\ n = CeilDiv(task[t].total_size, part_bytes)
              /\ PartSize(t, n) = task[t].total_size - (n - 1) * part_bytes
              /\ SumSizes(task[t].srv_parts) = task[t].total_size

\* Three parts, the last shorter than the chunk size.
C22_Witness ==
    \E t \in TaskIds :
        /\ task[t].state = "Succeeded"
        /\ Len(task[t].parts) = 3
        /\ PartSize(t, 3) < part_bytes

\* C23: with the default chunk size of 100 MiB the copy of any object of up
\* to 1 TiB uses no more parts than the service's maximum of 10,000.
C23_DefaultPartsWithinLimit ==
    (sizing.pc = "counted" /\ sizing.part = DEFAULT_PART_MIB
        /\ sizing.size <= LargestObjectMiB) =>
        sizing.parts <= MaxPartCount

\* C24 (as claimed): on success copy_one_object returns the number of bytes
\* copied, which is the probed size of the source.
C24_ReturnsBytesCopied ==
    \A t \in TaskIds :
        task[t].state = "Succeeded" => task[t].ret = <<task[t].total_size>>

\* C24 (amended): on success copy_one_object returns no value; the bytes it
\* has counted and the size it has verified equal the probed size.
C24_ReturnsNothing ==
    \A t \in TaskIds :
        task[t].state = "Succeeded" =>
            /\ task[t].ret = <<>>
            /\ task[t].bytes_done = task[t].total_size
            /\ task[t].total_size > 0 => task[t].dest_size = task[t].total_size

C24_Witness ==
    \E t \in TaskIds :
        /\ task[t].state = "Succeeded"
        /\ task[t].total_size > 0
        /\ task[t].bytes_done = task[t].total_size

\* The steps of the state of a task: forward only, and none out of a state
\* in which the task has ended.
StepsForward(from, to) ==
    \/ to = from
    \/ from = "Unsubmitted" /\ to \in {"Pending", "Running"}
    \/ from = "Pending" /\ to = "Running"
    \/ from = "Running" /\ to \in Terminal

\* C25: a task goes Pending -> Running -> Succeeded or Failed (or is cut off
\* by the interruption of the run): it starts to run once, with no request
\* issued before, never leaves the state it ended in, never goes back to
\* Pending or Running, and is not run again after it failed.
C25_TaskStateMachine ==
    [][\A t \in TaskIds :
          /\ StepsForward(task[t].state, task'[t].state)
          /\ (task[t].state # "Running" /\ task'[t].state = "Running") =>
                 task[t].reqs = <<>>]_vars

\* The run has exited with one task Failed and the other Succeeded.
C25_Witness ==
    /\ mainpc = "exited"
    /\ \E t, u \in TaskIds :
          task[t].state = "Failed" /\ task[u].state = "Succeeded"

\* C26: when an invocation of copy_one_object has ended, on whatever path,
\* the multipart upload it opened is completed or an abort was requested
\* for it.
C26_SessionSettledAtEnd ==
    \A t \in TaskIds :
        (task[t].pc = "done" /\ task[t].session # "none") => SessionSettled(t)

SourceOps == {"head_object", "get_object", "read"}

MutatingOps == DestWrites \cup {"abort_multipart_upload"}

\* C27: every request sent through the source client is a read (the size
\* probe, which is the first request, the opening of the stream or a read of
\* it); every request that changes something (put, create, upload part,
\* complete, abort) and the verification probe go through the destination
\* client.
C27_ClientsIsolated ==
    \A t \in TaskIds :
        \A i \in 1..Len(task[t].reqs) :
            LET r == task[t].reqs[i] IN
            /\ r.client \in {"source", "dest"}
            /\ r.client = "source" => r.op \in SourceOps
            /\ r.op \in MutatingOps => r.client = "dest"
            /\ r.op \in {"get_object", "read"} => r.client = "source"
            /\ r.op = "head_object" => (r.client = "source" <=> i = 1)

\* A copy that used every kind of request but the abort.
C27_Witness ==
    \E t \in TaskIds :
        /\ Verified(t)
        /\ Cardinality(Issued(t, "upload_part")) >= 2

\* The total size of the parts task t has recorded in its list.
RecordedBytes(r) ==
    SumSizes({p \in r.srv_parts : \E i \in 1..Len(r.parts) : r.parts[i] = p[1]})

\* The last request of r is a part upload that succeeded.
PartJustUploaded(r) ==
    /\ r.reqs # <<>>
    /\ r.reqs[Len(r.reqs)].op = "upload_part"
    /\ r.reqs[Len(r.reqs)].ok

\* C30: the bytes-transferred counter of a task never decreases; it changes
\* only in the step in which a part upload succeeded, by the size of that
\* part, and after every step it is the total size of the parts recorded.
C30_BytesDoneCountsParts ==
    [][\A t \in TaskIds :
          /\ task'[t].bytes_done >= task[t].bytes_done
          /\ task'[t].bytes_done = RecordedBytes(task'[t])
          /\ task'[t].bytes_done # task[t].bytes_done =>
                /\ Len(task'[t].reqs) = Len(task[t].reqs) + 1
                /\ PartJustUploaded(task'[t])
                /\ task[t].chunk > 0
                /\ task'[t].bytes_done = task[t].bytes_done + task[t].chunk
                /\ Len(task'[t].parts) = Len(task[t].parts) + 1]_vars

\* A copy that has counted a full part and a shorter last one.
C30_Witness ==
    \E t \in TaskIds :
        /\ Len(task[t].parts) = 2
        /\ task[t].bytes_done = part_bytes + 1
        /\ part_bytes > 1
        /\ PartJustUploaded(task[t])

\* The time for which task r has shown no sign of life: since its last chunk
\* was done or its last heartbeat line, whichever is later.
Quiet(r) == r.clock - (IF r.beat_at > r.now THEN r.beat_at ELSE r.now)

\* C28: while a task is Running in its copy loop, a heartbeat line is
\* emitted whenever HEARTBEAT_SEC have passed without a chunk being done, so
\* the task is never quiet for longer than that, also while it is blocked in
\* a single read or part upload.
C28_HeartbeatWhenQuiet ==
    \A t \in TaskIds :
        (IsRunning(t) /\ task[t].pc \in {"read", "upload"}) =>
            Quiet(task[t]) <= HEARTBEAT_SEC

\* The workers inside a write to the log file.
Logging == {t \in TaskIds : task[t].logging}

\* A step in which the main thread appends the "Interrupted (N/M completed)"
\* line to the log file (lines 389-393), inside the with-block of the pool.
MainWritesLog == done_msg' # done_msg

\* C29: with more than one worker no two threads are inside a write to the
\* log file at the same time: no two workers are, and the main thread
\* appends its lines only while no worker is inside a write.
C29_LogWritesExclusive ==
    [][/\ Cardinality(Logging') <= 1
       /\ MainWritesLog => Logging = {}]_vars

----------------------------------------------------------------------------
(* Claims: memory, the key mapping, the end of a run. *)

\* The last request of r is a read that returned.
ReadJustReturned(r) ==
    /\ r.reqs # <<>>
    /\ r.reqs[Len(r.reqs)].op = "read"
    /\ r.reqs[Len(r.reqs)].ok

\* C31: a running task holds at most one chunk of at most part_bytes bytes:
\* when a read returns, the bytes it returned together with the bytes the
\* task still holds are no more than part_bytes.
C31_OneChunkBuffered ==
    [][\A t \in TaskIds :
          /\ task'[t].chunk <= part_bytes
          /\ (Len(task'[t].reqs) > Len(task[t].reqs) /\ ReadJustReturned(task'[t])) =>
                task[t].chunk + task'[t].chunk <= part_bytes]_vars

\* C32: the destination key of every listed key has no empty path segment
\* ("//"), whatever separators the source key, the list prefix and the
\* destination prefix contain.
C32_DestKeyCollapsed ==
    (keymap.pc = "mapped" /\ keymap.list_prefix # <<>>
        /\ keymap.src_key[1] # "/"
        /\ keymap.src_key[Len(keymap.src_key)] # "/") =>
        NoDoubleSlash(keymap.dkey)

\* The task failed on a part upload, and every abort requested after it was
\* accepted.
PartUploadFailed(r) ==
    /\ r.state = "Failed"
    /\ \E i \in 1..Len(r.reqs) :
          /\ r.reqs[i].op = "upload_part" /\ ~r.reqs[i].ok
          /\ \A j \in (i + 1)..Len(r.reqs) : r.reqs[j].ok

\* C33: the error of a task that failed on a part upload the service
\* rejected (the RuntimeError of line 193) names the number of the part that
\* failed and the number of bytes copied so far.
C33_PartErrorNamesProgress ==
    \A t \in TaskIds :
        (PartUploadFailed(task[t]) /\ task[t].err.kind = "upload_part") =>
            /\ task[t].err.part = task[t].part_num
            /\ task[t].err.bytes = task[t].bytes_done

\* The key of an object, not of a folder marker.
IsObjectKey(k) == k # <<>> /\ k[Len(k)] # "/"

\* C34: no two tasks of a run have the same destination key: two different
\* listed keys of objects are mapped to two different destination keys.
C34_DestKeysDistinct ==
    \A i, j \in 1..Len(keymap.tasks) :
        (/\ IsObjectKey(keymap.tasks[i][1])
         /\ IsObjectKey(keymap.tasks[j][1])
         /\ keymap.tasks[i][1] # keymap.tasks[j][1]) =>
            keymap.tasks[i][2] # keymap.tasks[j][2]

\* C35: in the requests of a task, no upload_part and no complete follows an
\* abort request, and no upload_part, complete or abort follows a complete
\* that succeeded.
C35_NothingAfterSessionEnd ==
    \A t \in TaskIds :
        \A i, j \in 1..Len(task[t].reqs) :
            LET a == task[t].reqs[i]
                b == task[t].reqs[j]
            IN  i < j =>
                  /\ a.op = "abort_multipart_upload" =>
                        b.op \notin {"upload_part", "complete_multipart_upload"}
                  /\ (a.op = "complete_multipart_upload" /\ a.ok) =>
                        b.op \notin {"upload_part", "complete_multipart_upload",
                                     "abort_multipart_upload"}

\* A copy whose second part was rejected was aborted by both handlers and
\* has ended.
C35_Witness ==
    \E t \in TaskIds :
        /\ task[t].pc = "done"
        /\ Cardinality(Issued(t, "abort_multipart_upload")) = 2
        /\ Cardinality(Issued(t, "upload_part")) = 2

\* C36: the log file is closed only after every dispatched task has ended,
\* so no write of a worker to the log ever meets the closed file.
C36_NoWriteAfterClose ==
    \A t \in TaskIds : task[t].err.kind # "closed_log"

\* Every task of the run has finished.
AllFinished == total > 0 /\ \A t \in Planned : Ended(t)

\* C38: an interrupt that arrives when every task of the pool has already
\* finished is not reported as a cancellation: neither the step that handles
\* it nor the exit it prepares is the interrupted one.
C38_LateInterruptNotCancelled ==
    [][(~interrupted /\ interrupted' /\ AllFinished /\ workers > 1) =>
          /\ outcome' # "cancelled"
          /\ after' \notin {"sysexit1", "interrupt"}]_vars

\* C37: every read that returns bytes takes at least one byte off the source
\* stream, and when every request returns the invocation ends, in success or
\* in failure.
C37_CopyTerminates ==
    /\ [][\A t \in TaskIds :
             (Len(task'[t].reqs) > Len(task[t].reqs) /\ ReadJustReturned(task'[t])
                 /\ task'[t].chunk > 0) =>
                 task'[t].remaining < task[t].remaining]_vars
    /\ <>(\A t \in Submitted : task[t].state \in {"Succeeded", "Failed"})

\* A copy of the largest object in chunks of one byte has ended in success.
C37_Witness ==
    \E t \in TaskIds :
        /\ task[t].state = "Succeeded"
        /\ part_bytes = 1
        /\ Len(task[t].parts) = MaxCopySize

====
